---- MODULE Spec2Model ----
(***************************************************************************)
(* Verification model of esp_disp_driver (ttzytt/hardware_vga_driver).     *)
(*                                                                         *)
(* Eight specifications share this module:                                 *)
(*   Spec      the bus-scan writer: DoubleBuffer, the drawing task         *)
(*             (write_pixel / swap), the scan loop and the external        *)
(*             address generator (display/backend/utils.rs, bus_dac.rs).   *)
(*   SpecBus   one ParDataWriter and one ParDataReader of width N on the   *)
(*             same lines (par_data_rw.rs).                                *)
(*   SpecSipo  one SipoSingle chain driving 74HC595 devices (sipo.rs).     *)
(*   SpecBank  one ParallelBank of several chains on a shared ControlGroup *)
(*             and the shift-register pixel writer built on it (sipo.rs,   *)
(*             display/backend/sipo.rs).                                   *)
(*   SpecSwap  the drawing task and the owner of the bus-scan writer, who  *)
(*             calls present_frame, both swapping one DoubleBuffer.        *)
(*   SpecAddr  the scan loop against an address generator that changes the *)
(*             address lines at any time.                                  *)
(*   SpecLive  the bus-scan writer at one fixed address, the scan task     *)
(*             scheduled fairly.                                           *)
(*   SpecDraw  a Drawer<u8, u8, PW> calling fill_screen and draw_rectangle *)
(*             on the pixel writer it borrows (display/drawer.rs).         *)
(* Every GPIO access is one step, so that another task, or an observer of  *)
(* the lines, may act between two accesses.                                *)
(***************************************************************************)
EXTENDS Integers, Sequences, FiniteSets, TLC

VARIABLES
    \* ---- bus-scan writer (Spec) ----
    active_idx,   \* DoubleBuffer.active_idx (AtomicU8)
    bufs,         \* DoubleBuffer.bufs: slot -> frame (tracked cells only)
    prod,         \* drawing task: position and locals
    scan,         \* scan task: position and locals of scan_loop
    haddr_pins,   \* levels of the 8 horizontal address input pins
    vaddr_pins,   \* levels of the 8 vertical address input pins
    data_pins,    \* levels of the 4 data output pins
    nswaps,       \* history: completed swap() calls
    nwrites,      \* history: write_pixel calls started
    dirty,        \* history: cells written since the last completed swap
    last_wr,      \* history: the last completed write_pixel call
    scan_obs,     \* history: what the running scan iteration read
    \* ---- one parallel bus, writer and reader on the same lines (SpecBus) ----
    bus_N,        \* const N: the number of lines
    bus_pins,     \* levels of the N lines
    bus_call,     \* the accessor being executed: position and locals
    bus_pre,      \* history: the levels when the running accessor was called
    bus_last,     \* history: the last write accessor that returned
    overflow_checks, \* build profile: arithmetic overflow panics (debug) or wraps
    \* ---- one SipoSingle chain and its 74HC595 devices (SpecSipo) ----
    sipo_cfg,     \* const N (bytes) and the ControlGroup's optional lines
    ser_out,      \* level of the SER pin of each lane
    srclk,        \* level of the shift clock pin
    rclk,         \* level of the latch pin (when configured)
    srclr,        \* level of the clear pin (when configured)
    shift_reg,    \* devices: shift register of each lane, nearest stage first
    out_reg,      \* devices: latched parallel outputs of each lane
    sipo_call,    \* the operation being executed: position and locals
    ticked,       \* history: SER levels clocked in during the running call
    \* ---- the owner of the bus-scan writer (SpecSwap) ----
    presenter,    \* present_frame being executed: position, locals, calls done
    \* ---- a Drawer and the pixel writer it borrows (SpecDraw) ----
    draw_cfg,     \* the writer: its kind and what its addr_range() returns
    draw_call,    \* the Drawer method being executed: position and locals
    draw_log      \* history: the write_pixel calls the running method made

dbVars == <<active_idx, bufs, prod, scan, haddr_pins, vaddr_pins, data_pins,
            nswaps, nwrites, dirty, last_wr, scan_obs>>

busVars == <<bus_N, bus_pins, bus_call, bus_pre, bus_last, overflow_checks>>

sipoVars == <<sipo_cfg, ser_out, srclk, rclk, srclr, shift_reg, out_reg,
              sipo_call, ticked>>

ownerVars == <<presenter>>

drawVars == <<draw_cfg, draw_call, draw_log>>

vars == <<dbVars, busVars, sipoVars, ownerVars, drawVars>>

notDb == <<busVars, sipoVars, ownerVars, drawVars>>
notBus == <<dbVars, sipoVars, ownerVars, drawVars>>
notSipo == <<dbVars, busVars, ownerVars, drawVars>>

(***************************************************************************)
(* Program constants.                                                      *)
(***************************************************************************)
FB_WIDTH == 201
FB_HEIGHT == 151
HADDR_CNT == 8
VADDR_CNT == 8
DATA_CNT == 4
U8_BITS == 8

(***************************************************************************)
(* Bounds of the model.                                                    *)
(***************************************************************************)
MaxWrites == 2
MaxSwaps == 2
MaxChain == 2
MaxLanes == 3
MaxLive == 1
MaxDraws == 2
DrawRows == 2
DrawCols == 3

(***************************************************************************)
(* Inputs.                                                                 *)
(***************************************************************************)
\* (i, j) arguments of write_pixel: two in-range cells that are each other's
\* transpose, the last cell of the frame, and one whose row is out of range
\* but whose column is not.
WriteAddrs == {<<3, 5>>, <<5, 3>>, <<150, 200>>, <<200, 3>>}
\* colors: one that fits the 4 data pins and one that does not
ColorInputs == {5, 200}
\* (h, v) presented by the external address generator
ScanAddrs == {<<5, 3>>, <<3, 5>>, <<200, 150>>, <<201, 3>>}
\* the cells of a frame the model tracks; every other cell keeps FB_INIT
Cells == {<<3, 5>>, <<5, 3>>, <<150, 200>>}
FB_INIT == 0
None == 0 - 1

(***************************************************************************)
(* Bit arithmetic on unsigned integers.                                    *)
(***************************************************************************)
Pow2(n) == 2 ^ n

\* (value >> i) & 1
BitAt(value, i) == (value \div Pow2(i)) % 2

\* value | (1 << i)
SetBitOf(value, i) == IF BitAt(value, i) = 1 THEN value ELSE value + Pow2(i)

\* the levels an external device presents for `value` on n lines
PinsOf(value, n) == [p \in 0 .. n - 1 |-> BitAt(value, p) = 1]

\* the number the n lines carry, line 0 = least significant
RECURSIVE BusValue(_, _)
BusValue(pins, n) ==
    IF n = 0 THEN 0
    ELSE BusValue(pins, n - 1) + (IF pins[n - 1] THEN Pow2(n - 1) ELSE 0)

\* the number carried by lines from .. to - 1, line `from` counting 1
RECURSIVE LinesValue(_, _, _)
LinesValue(pins, from, to) ==
    IF to <= from THEN 0
    ELSE LinesValue(pins, from, to - 1)
         + (IF pins[to - 1] THEN Pow2(to - 1 - from) ELSE 0)

Min(a, b) == IF a < b THEN a ELSE b

(***************************************************************************)
(* ParDataReader / ParDataWriter, one GPIO access at a time.               *)
(* A u8 or u16 is a natural number; a u32 is the pair <<high, low>> of its *)
(* 16-bit halves.                                                          *)
(***************************************************************************)
ReadOps == {"read_u8", "read_u16", "read_u32"}
WriteOps == {"write_u8", "write_u16", "write_u32"}

\* the width in bits of the integer an accessor packs or unpacks
Width(op) ==
    CASE op \in {"read_u8", "write_u8"} -> 8
      [] op \in {"read_u16", "write_u16"} -> 16
      [] OTHER -> 32

\* let mut value: uW = 0
Zero(w) == IF w = 32 THEN <<0, 0>> ELSE 0

\* (value >> k) & 1, for k < w
ValBit(w, value, k) ==
    IF w = 32
    THEN IF k < 16 THEN BitAt(value[2], k) ELSE BitAt(value[1], k - 16)
    ELSE BitAt(value, k)

\* value | (1 << k), for k < w
ValOr(w, value, k) ==
    IF w = 32
    THEN IF k < 16 THEN <<value[1], SetBitOf(value[2], k)>>
                   ELSE <<SetBitOf(value[1], k - 16), value[2]>>
    ELSE SetBitOf(value, k)

\* a shift by i of a w-bit integer overflows when i >= w: with overflow checks
\* it panics, without them the shift amount wraps to i mod w
ShiftOverflows(w, i) == i >= w

\* mutant: read_u8 without its assertion
ReadU8AcceptsAll(N) == TRUE

\* read_u8: assert!(N <= 8)
ReadU8Accepts(N) == N <= 8

\* read_u16: assert!(N <= 16)
ReadU16Accepts(N) == N <= 16

\* read_u32, write_u8, write_u16, write_u32 assert nothing
Accepts(op, N) ==
    CASE op = "read_u8" -> ReadU8Accepts(N)
      [] op = "read_u16" -> ReadU16Accepts(N)
      [] OTHER -> TRUE

\* mutant: the 32-bit loops without `&& i < 32`
LoopCondNoCap(op, i, N) == i < N

\* `while i < N` (u8, u16), `while i < N && i < 32` (u32)
LoopCond(op, i, N) == IF Width(op) = 32 THEN i < N /\ i < 32 ELSE i < N

\* mutant: the read accessors pack the most significant bit first
ReadStepMsbFirst(w, pins, i, value) ==
    IF pins[i] THEN ValOr(w, value, w - 1 - (i % w)) ELSE value

\* read loop body: if pins[i].is_high() { value |= 1 << i }
ReadStep(w, pins, i, value) ==
    IF pins[i] THEN ValOr(w, value, i % w) ELSE value

\* set_bit(idx, bit): ignored when idx >= N
SetBit(pins, N, idx, bit) ==
    IF idx >= N THEN pins ELSE [pins EXCEPT ![idx] = bit]

\* read_bits(): out[i] = self.pins[i].is_high(), for i in 0..N
ReadBits(pins, N) == [i \in 0 .. N - 1 |-> pins[i]]

\* write_bits(bits): for i in 0..N { self.set_bit(i, bits[i]) }, from index i
RECURSIVE WriteBitsFrom(_, _, _, _)
WriteBitsFrom(pins, N, bits, i) ==
    IF i >= N THEN pins
    ELSE WriteBitsFrom(SetBit(pins, N, i, bits[i]), N, bits, i + 1)

WriteBits(pins, N, bits) == WriteBitsFrom(pins, N, bits, 0)

\* mutant: the write accessors unpack the most significant bit first
WriteBitMsbFirst(w, value, i) == ValBit(w, value, w - 1 - (i % w)) = 1

\* write loop body: let bit = ((value >> i) & 0x01) != 0
WriteBit(w, value, i) == ValBit(w, value, i % w) = 1

\* write loop body: set_bit(i, bit)
WriteStep(w, pins, N, i, value) == SetBit(pins, N, i, WriteBit(w, value, i))

(***************************************************************************)
(* DoubleBuffer.                                                           *)
(***************************************************************************)
\* active_index(): active_idx.load(Acquire)
active_index == active_idx

\* mutant: inactive_index without the exclusive or
InactiveIndexNoFlip == active_idx

\* inactive_index(): 1 ^ active_index()
inactive_index == 1 - active_index

\* mutant: swap sets the selector instead of toggling it (cur | 1)
SwapNextSet(cur) == 1

\* swap(): next = cur ^ 1
SwapNext(cur) == 1 - cur

\* mutant: a frame of FB_WIDTH rows and FB_HEIGHT columns
InFrameTransposed(row, col) == row < FB_WIDTH /\ col < FB_HEIGHT

\* frame[row][col] of a FrameBuf is in bounds (the index panics otherwise)
InFrame(row, col) == row < FB_HEIGHT /\ col < FB_WIDTH

FrameGet(frame, row, col) ==
    IF <<row, col>> \in DOMAIN frame THEN frame[<<row, col>>] ELSE FB_INIT

\* mutant: row and column exchanged in write_pixel's index
WriteCellTransposed(i, j) == <<j, i>>

\* mutant: write_pixel uses the row for both indices
WriteCellRowOnly(i, j) == <<i, i>>

\* the cell write_pixel(i, j, _) stores to: frame[i as usize][j as usize]
WriteCell(i, j) == <<i, j>>

\* mutant: the scan loop indexes the frame column first
ScanCellColumnFirst(h, v) == <<h, v>>

\* the cell a scan iteration with sampled h, v loads: frame[v][h]
ScanCell(h, v) == <<v, h>>

\* mutant: scan_loop without its range check
InScanRangeAll(h, v) == TRUE

\* scan_loop: if h < FB_WIDTH && v < FB_HEIGHT
InScanRange(h, v) == h < FB_WIDTH /\ v < FB_HEIGHT

\* `x as u8`
AsU8(x) == x % 256

\* BwPixelWriter8h8v1ch4::addr_range:
\* ((0, FB_HEIGHT as u8 - 1), (0, FB_WIDTH as u8 - 1))
BusDacAddrRange == <<<<0, AsU8(FB_HEIGHT) - 1>>, <<0, AsU8(FB_WIDTH) - 1>>>>

\* BwPixelWriter8h8v1ch4::color_range
BusDacColorRange == <<0, 255>>

\* BwPixelWriter8h8v1ch8::addr_range and color_range
SipoAddrRange == <<<<0, 150>>, <<0, 200>>>>
SipoColorRange == <<0, 255>>

(***************************************************************************)
(* Initial state: DoubleFb::new(FB_INIT), with_hw_resources(.., Low).      *)
(***************************************************************************)
ProdIdle == [pc |-> "idle", idx |-> None, i |-> None, j |-> None,
             color |-> None, cur |-> None]

ScanTop == [pc |-> "read_h", i |-> 0, value |-> 0, h |-> None, v |-> None,
            idx |-> None, color |-> None]

\* mutant: new() fills only the first slot with `initial`
InitDbFirstSlotOnly ==
    /\ active_idx = 0
    /\ bufs = [s \in {0, 1} |-> [c \in Cells |-> IF s = 0 THEN FB_INIT ELSE 255]]
    /\ prod = ProdIdle
    /\ scan = ScanTop
    /\ \E a \in ScanAddrs :
          /\ haddr_pins = PinsOf(a[1], HADDR_CNT)
          /\ vaddr_pins = PinsOf(a[2], VADDR_CNT)
    /\ data_pins = [p \in 0 .. DATA_CNT - 1 |-> FALSE]
    /\ nswaps = 0
    /\ nwrites = 0
    /\ dirty = {}
    /\ last_wr = <<>>
    /\ scan_obs = <<>>

InitDb ==
    /\ active_idx = 0
    /\ bufs = [s \in {0, 1} |-> [c \in Cells |-> FB_INIT]]
    /\ prod = ProdIdle
    /\ scan = ScanTop
    /\ \E a \in ScanAddrs :
          /\ haddr_pins = PinsOf(a[1], HADDR_CNT)
          /\ vaddr_pins = PinsOf(a[2], VADDR_CNT)
    /\ data_pins = [p \in 0 .. DATA_CNT - 1 |-> FALSE]
    /\ nswaps = 0
    /\ nwrites = 0
    /\ dirty = {}
    /\ last_wr = <<>>
    /\ scan_obs = <<>>

(***************************************************************************)
(* Drawing task.                                                           *)
(***************************************************************************)
\* write_pixel(i, j, color) enters with_inactive: idx = inactive_index(),
\* buf = &mut bufs[idx]
WritePixelBegin ==
    /\ prod.pc = "idle"
    /\ nwrites < MaxWrites
    /\ \E a \in WriteAddrs, c \in ColorInputs :
          prod' = [prod EXCEPT !.pc = "with_inactive", !.idx = inactive_index,
                               !.i = a[1], !.j = a[2], !.color = c]
    /\ nwrites' = nwrites + 1
    /\ UNCHANGED <<active_idx, bufs, scan, haddr_pins, vaddr_pins, data_pins,
                   nswaps, dirty, last_wr, scan_obs, notDb>>

\* the closure: frame[i as usize][j as usize] = color (bounds-checked index)
WritePixelStore ==
    /\ prod.pc = "with_inactive"
    /\ IF InFrame(WriteCell(prod.i, prod.j)[1], WriteCell(prod.i, prod.j)[2])
       THEN /\ bufs' = [bufs EXCEPT ![prod.idx][WriteCell(prod.i, prod.j)] = prod.color]
            /\ prod' = ProdIdle
            /\ dirty' = dirty \cup {<<prod.idx, WriteCell(prod.i, prod.j)>>}
            /\ last_wr' = [slot |-> prod.idx, i |-> prod.i, j |-> prod.j,
                           color |-> prod.color, swapped |-> FALSE]
       ELSE /\ prod' = [ProdIdle EXCEPT !.pc = "panicked"]
            /\ UNCHANGED <<bufs, dirty, last_wr>>
    /\ UNCHANGED <<active_idx, scan, haddr_pins, vaddr_pins, data_pins,
                   nswaps, nwrites, scan_obs, notDb>>

\* swap(): cur = active_index()
SwapLoad ==
    /\ prod.pc = "idle"
    /\ nswaps < MaxSwaps
    /\ prod' = [prod EXCEPT !.pc = "swap", !.cur = active_index]
    /\ UNCHANGED <<active_idx, bufs, scan, haddr_pins, vaddr_pins, data_pins,
                   nswaps, nwrites, dirty, last_wr, scan_obs, notDb>>

\* mutant: swap also copies the frame it publishes into the other slot
SwapStoreCopying ==
    /\ prod.pc = "swap"
    /\ active_idx' = SwapNext(prod.cur)
    /\ bufs' = [bufs EXCEPT ![prod.cur] = bufs[SwapNext(prod.cur)]]
    /\ prod' = ProdIdle
    /\ nswaps' = nswaps + 1
    /\ dirty' = {}
    /\ last_wr' = IF last_wr = <<>> THEN last_wr
                  ELSE [last_wr EXCEPT !.swapped = TRUE]
    /\ UNCHANGED <<scan, haddr_pins, vaddr_pins, data_pins, nwrites,
                   scan_obs, notDb>>

\* swap(): active_idx.store(cur ^ 1, Release)
SwapStore ==
    /\ prod.pc = "swap"
    /\ active_idx' = SwapNext(prod.cur)
    /\ prod' = ProdIdle
    /\ nswaps' = nswaps + 1
    /\ dirty' = {}
    /\ last_wr' = IF last_wr = <<>> THEN last_wr
                  ELSE [last_wr EXCEPT !.swapped = TRUE]
    /\ UNCHANGED <<bufs, scan, haddr_pins, vaddr_pins, data_pins, nwrites,
                   scan_obs, notDb>>

(***************************************************************************)
(* Scan task: scan_loop.                                                   *)
(***************************************************************************)
\* haddr_reader.read_u8(): one pin per step; the last pin yields h
ScanReadH ==
    /\ scan.pc = "read_h"
    /\ ReadU8Accepts(HADDR_CNT)
    /\ LET val == ReadStep(U8_BITS, haddr_pins, scan.i, scan.value) IN
          scan' = IF scan.i + 1 < HADDR_CNT
                  THEN [scan EXCEPT !.i = scan.i + 1, !.value = val]
                  ELSE [scan EXCEPT !.pc = "read_v", !.i = 0, !.value = 0,
                                    !.h = val]
    /\ UNCHANGED <<active_idx, bufs, prod, haddr_pins, vaddr_pins, data_pins,
                   nswaps, nwrites, dirty, last_wr, scan_obs, notDb>>

\* vaddr_reader.read_u8(), then `if h < FB_WIDTH && v < FB_HEIGHT`
ScanReadV ==
    /\ scan.pc = "read_v"
    /\ ReadU8Accepts(VADDR_CNT)
    /\ LET val == ReadStep(U8_BITS, vaddr_pins, scan.i, scan.value) IN
          scan' = IF scan.i + 1 < VADDR_CNT
                  THEN [scan EXCEPT !.i = scan.i + 1, !.value = val]
                  ELSE IF InScanRange(scan.h, val)
                  THEN [scan EXCEPT !.pc = "with_active", !.i = 0, !.value = 0,
                                    !.v = val]
                  ELSE ScanTop
    /\ UNCHANGED <<active_idx, bufs, prod, haddr_pins, vaddr_pins, data_pins,
                   nswaps, nwrites, dirty, last_wr, scan_obs, notDb>>

\* with_active: idx = active_index(), buf = &bufs[idx]
ScanLoadActive ==
    /\ scan.pc = "with_active"
    /\ scan' = [scan EXCEPT !.pc = "closure", !.idx = active_index]
    /\ UNCHANGED <<active_idx, bufs, prod, haddr_pins, vaddr_pins, data_pins,
                   nswaps, nwrites, dirty, last_wr, scan_obs, notDb>>

\* the closure: let color = frame[v][h]
ScanReadCell ==
    /\ scan.pc = "closure"
    /\ LET cell == ScanCell(scan.h, scan.v) IN
          /\ scan' = [scan EXCEPT !.pc = "write_u8", !.i = 0,
                                  !.color = FrameGet(bufs[scan.idx], cell[1], cell[2])]
          /\ scan_obs' = [dirty |-> <<scan.idx, cell>> \in dirty,
                          wr |-> IF last_wr # <<>> /\ last_wr.slot = scan.idx
                                 THEN last_wr ELSE <<>>]
    /\ UNCHANGED <<active_idx, bufs, prod, haddr_pins, vaddr_pins, data_pins,
                   nswaps, nwrites, dirty, last_wr, notDb>>

\* data_writer.write_u8(color): one pin per step
ScanWriteU8 ==
    /\ scan.pc = "write_u8"
    /\ scan.i < DATA_CNT
    /\ data_pins' = WriteStep(U8_BITS, data_pins, DATA_CNT, scan.i, scan.color)
    /\ scan' = [scan EXCEPT !.i = scan.i + 1]
    /\ UNCHANGED <<active_idx, bufs, prod, haddr_pins, vaddr_pins, nswaps,
                   nwrites, dirty, last_wr, scan_obs, notDb>>

\* mutant: scan_loop returns after one iteration that drove the bus
ScanLoopReturns ==
    /\ scan.pc = "write_u8"
    /\ scan.i = DATA_CNT
    /\ scan' = [ScanTop EXCEPT !.pc = "returned"]
    /\ scan_obs' = <<>>
    /\ UNCHANGED <<active_idx, bufs, prod, haddr_pins, vaddr_pins, data_pins,
                   nswaps, nwrites, dirty, last_wr, notDb>>

\* write_u8 and the closure return; next iteration of `loop`
ScanLoop ==
    /\ scan.pc = "write_u8"
    /\ scan.i = DATA_CNT
    /\ scan' = ScanTop
    /\ scan_obs' = <<>>
    /\ UNCHANGED <<active_idx, bufs, prod, haddr_pins, vaddr_pins, data_pins,
                   nswaps, nwrites, dirty, last_wr, notDb>>

(***************************************************************************)
(* The external address generator.  AddrChange drives the address lines at *)
(* any time; AddrDwell does so only between two scan iterations (the       *)
(* address dwell time exceeds the latency of one iteration).               *)
(***************************************************************************)
AddrChange ==
    /\ \E a \in ScanAddrs :
          /\ haddr_pins' = PinsOf(a[1], HADDR_CNT)
          /\ vaddr_pins' = PinsOf(a[2], VADDR_CNT)
    /\ UNCHANGED <<active_idx, bufs, prod, scan, data_pins, nswaps, nwrites,
                   dirty, last_wr, scan_obs, notDb>>

AddrDwell ==
    /\ scan.pc = "read_h"
    /\ scan.i = 0
    /\ AddrChange

NextDb ==
    \/ WritePixelBegin
    \/ WritePixelStore
    \/ SwapLoad
    \/ SwapStore
    \/ ScanReadH
    \/ ScanReadV
    \/ ScanLoadActive
    \/ ScanReadCell
    \/ ScanWriteU8
    \/ ScanLoop
    \/ AddrDwell

(***************************************************************************)
(* Claims about the bus-scan writer (Spec).                                *)
(***************************************************************************)
\* the scan task holds the &FrameBuf handed to its with_active closure
InActiveClosure == scan.pc \in {"closure", "write_u8"}

\* the drawing task holds the &mut FrameBuf handed to its with_inactive closure
InInactiveClosure == prod.pc = "with_inactive"

\* write_u8 of the running scan iteration has driven all data pins
ScanDriven == scan.pc = "write_u8" /\ scan.i = DATA_CNT

\* the value the 4 data lines carry
DataBus == BusValue(data_pins, DATA_CNT)

\* the write_pixel call whose slot the running iteration read, once it was
\* followed by a swap
ObservedWrite ==
    IF scan.pc = "write_u8" /\ scan_obs.wr # <<>> /\ scan_obs.wr.swapped
    THEN scan_obs.wr ELSE <<>>

\* C1: no framebuffer slot is being written by a with_inactive closure while a
\* with_active closure that started earlier is still reading that same slot.
\* (The two closures can only overlap on one slot when the reader loaded the
\* selector before the swap that precedes the writer's with_inactive.)
C1_ReaderSlotUntouched ==
    ~(InActiveClosure /\ InInactiveClosure /\ scan.idx = prod.idx)

\* C2: a color written by write_pixel is never driven onto the data bus by the
\* scan loop before the producer's next swap, and a scan iteration that reads
\* the cell after that swap does drive the cell's color.
C2_VisibleOnlyAfterSwap ==
    /\ ScanDriven /\ scan_obs.dirty =>
          <<scan.idx, ScanCell(scan.h, scan.v)>> \notin dirty
    /\ ScanDriven /\ ObservedWrite # <<>>
          /\ WriteCell(ObservedWrite.i, ObservedWrite.j) = ScanCell(scan.h, scan.v)
          => scan.color = ObservedWrite.color

C4_SwapToggles ==
    /\ [](active_idx = nswaps % 2)
    /\ [][active_idx' # active_idx =>
             prod.pc = "swap" /\ prod'.pc = "idle" /\ nswaps' = nswaps + 1]_vars

C4_Witness == nswaps = 2 /\ active_idx = 0 /\ prod.pc = "idle" /\ nwrites > 0

\* C5: the selector is 0 or 1, exactly one slot is active and the other
\* inactive, a with_inactive closure of the single drawing task holds the
\* slot that is not active when it writes, and with_active holds slot 0 or 1.
C5_OneActiveOneInactive ==
    /\ active_idx \in {0, 1}
    /\ {active_index, inactive_index} = {0, 1}
    /\ InInactiveClosure => prod.idx \in {0, 1} /\ prod.idx # active_idx
    /\ InActiveClosure => scan.idx \in {0, 1}

C5_Witness ==
    /\ InInactiveClosure /\ prod.idx = 0 /\ active_idx = 1
    /\ InActiveClosure /\ scan.idx = 1

\* row i and column j lie inside the declared ((0, 150), (0, 200))
InAddrRange(i, j) == i <= 150 /\ j <= 200

\* the scan task is inside the `if` of an iteration
ScanInRangeBranch == scan.pc \in {"with_active", "closure", "write_u8"}

\* the levels of every GPIO pin of the bus-scan writer
DbPins == <<haddr_pins, vaddr_pins, data_pins>>

\* C16: both backends return addr_range() = ((0, 150), (0, 200)) and
\* color_range() = (0, 255) in every state, and the bus-scan writer's
\* write_pixel never fails on a (row, col) inside addr_range().
C16_RangesAndValidCells ==
    /\ [](/\ BusDacAddrRange = <<<<0, 150>>, <<0, 200>>>>
          /\ SipoAddrRange = <<<<0, 150>>, <<0, 200>>>>
          /\ BusDacColorRange = <<0, 255>>
          /\ SipoColorRange = <<0, 255>>)
    /\ [][prod.pc = "with_inactive" /\ InAddrRange(prod.i, prod.j) =>
             prod'.pc # "panicked"]_vars

C16_Witness ==
    /\ prod.pc = "idle" /\ last_wr # <<>>
    /\ last_wr.i = 150 /\ last_wr.j = 200
    /\ bufs[last_wr.slot][<<150, 200>>] = last_wr.color

C18_ScanLeavesState ==
    /\ [](ScanInRangeBranch => scan.h <= 200 /\ scan.v <= 150)
    /\ [][data_pins' # data_pins =>
             scan.pc = "write_u8" /\ scan.h <= 200 /\ scan.v <= 150]_vars
    /\ [][scan' # scan => bufs' = bufs /\ active_idx' = active_idx]_vars

C18_Witness ==
    /\ scan.pc = "read_v" /\ scan.i = VADDR_CNT - 1 /\ scan.h = 201
    /\ DataBus = 5

\* C19: write_pixel(i, j, color) with (i, j) in range changes cell [i][j] of
\* the slot that is inactive when it stores and nothing else: no other cell
\* of that slot, no cell of the active slot, not the selector, no pin level.
C19_OneCellOfInactive ==
    /\ [][prod.pc = "with_inactive" /\ prod' # prod /\ InAddrRange(prod.i, prod.j) =>
             /\ prod'.pc = "idle"
             /\ prod.idx = 1 - active_idx
             /\ bufs' = [bufs EXCEPT ![1 - active_idx][<<prod.i, prod.j>>] = prod.color]
             /\ UNCHANGED <<active_idx, DbPins>>]_vars
    /\ [][prod.pc = "idle" /\ prod'.pc = "with_inactive" =>
             UNCHANGED <<bufs, active_idx, DbPins>>]_vars

C19_Witness ==
    /\ prod.pc = "idle" /\ last_wr # <<>> /\ active_idx = 0
    /\ last_wr.slot = 1 /\ last_wr.i = 3 /\ last_wr.j = 5 /\ last_wr.color = 200
    /\ bufs[1] = [c \in Cells |-> IF c = <<3, 5>> THEN 200 ELSE FB_INIT]
    /\ bufs[0] = [c \in Cells |-> FB_INIT]
    /\ DataBus = 0

\* C21 as claimed: for every color c of color_range(), after write_pixel
\* stored c at an in-range address and swap() published it, the value the
\* scan loop drives onto the data bus for that address equals c.
C21_EveryColorDriven ==
    ScanDriven /\ ObservedWrite # <<>>
       /\ WriteCell(ObservedWrite.i, ObservedWrite.j) = ScanCell(scan.h, scan.v)
       /\ ObservedWrite.color \in BusDacColorRange[1] .. BusDacColorRange[2]
       => DataBus = ObservedWrite.color

\* C25: DoubleBuffer::new(initial) leaves both slots equal to initial and the
\* selector at 0, so until the first write_pixel or swap every with_active
\* holds slot 0 and reads initial.
C25_NewClonesInitial ==
    nwrites = 0 /\ nswaps = 0 =>
       /\ active_idx = 0
       /\ \A s \in {0, 1}, c \in Cells : bufs[s][c] = FB_INIT
       /\ InActiveClosure => scan.idx = 0
       /\ scan.pc = "write_u8" => scan.color = FB_INIT

C25_Witness ==
    /\ nwrites = 0 /\ nswaps = 0 /\ prod.pc = "idle"
    /\ ScanDriven /\ scan.idx = 0 /\ scan.h = 200 /\ scan.v = 150
    /\ scan.color = FB_INIT /\ DataBus = FB_INIT

\* the cell of the last completed write_pixel call
LastCell == WriteCell(last_wr.i, last_wr.j)

ScanNext ==
    \/ ScanReadH
    \/ ScanReadV
    \/ ScanLoadActive
    \/ ScanReadCell
    \/ ScanWriteU8
    \/ ScanLoop

\* the drawing task, bounded to MaxLive write_pixel and MaxLive swap calls
LiveWritePixelBegin ==
    /\ nwrites < MaxLive
    /\ WritePixelBegin

LiveSwapLoad ==
    /\ nswaps < MaxLive
    /\ SwapLoad

NextLive ==
    \/ LiveWritePixelBegin
    \/ WritePixelStore
    \/ LiveSwapLoad
    \/ SwapStore
    \/ ScanReadH
    \/ ScanReadV
    \/ ScanLoadActive
    \/ ScanReadCell
    \/ ScanWriteU8
    \/ ScanLoop

\* the address lines carry a = (h, v)
AddrIs(a) ==
    /\ haddr_pins = PinsOf(a[1], HADDR_CNT)
    /\ vaddr_pins = PinsOf(a[2], VADDR_CNT)

\* the addresses that pass the range check of scan_loop
InRangeAddrs == {a \in ScanAddrs : InScanRange(a[1], a[2])}

\* cell (row v, column h) of the active slot
ShownCell(a) == FrameGet(bufs[active_idx], a[2], a[1])

PresenterIdle == [pc |-> "idle", cur |-> None, n |-> 0]

InitSwap ==
    /\ InitDb
    /\ presenter = PresenterIdle

\* present_frame: self.dbf.swap(): cur = active_index()
PresentLoad ==
    /\ presenter.pc = "idle"
    /\ presenter.n < MaxSwaps
    /\ presenter' = [presenter EXCEPT !.pc = "swap", !.cur = active_index]
    /\ UNCHANGED <<dbVars, busVars, sipoVars, drawVars>>

\* present_frame: self.dbf.swap(): active_idx.store(cur ^ 1, Release)
PresentStore ==
    /\ presenter.pc = "swap"
    /\ active_idx' = SwapNext(presenter.cur)
    /\ presenter' = [pc |-> "idle", cur |-> None, n |-> presenter.n + 1]
    /\ dirty' = {}
    /\ last_wr' = IF last_wr = <<>> THEN last_wr
                  ELSE [last_wr EXCEPT !.swapped = TRUE]
    /\ UNCHANGED <<bufs, prod, scan, haddr_pins, vaddr_pins, data_pins, nswaps,
                   nwrites, scan_obs, busVars, sipoVars, drawVars>>

NextSwap ==
    \/ WritePixelBegin
    \/ WritePixelStore
    \/ SwapLoad
    \/ SwapStore
    \/ PresentLoad
    \/ PresentStore

\* C26: swap() acts as one atomic toggle even when two tasks call it at the
\* same time: once the calls have returned, the selector has been toggled
\* once per call, so two overlapping calls leave it at its original value.
C26_NoToggleLost ==
    prod.pc # "swap" /\ presenter.pc # "swap" =>
       active_idx = (nswaps + presenter.n) % 2

(***************************************************************************)
(* SpecAddr: the scan loop while the address generator changes the address *)
(* lines at any time (AddrChange).                                         *)
(***************************************************************************)
NextAddr ==
    \/ ScanReadH
    \/ ScanReadV
    \/ ScanLoadActive
    \/ ScanReadCell
    \/ ScanWriteU8
    \/ ScanLoop
    \/ AddrChange

\* C28: the (h, v) a scan iteration uses is an address the generator
\* presented on the two buses at one instant, never a mix of two addresses,
\* also when the address changes while the iteration samples the pins.
C28_AddressWasPresented ==
    ScanInRangeBranch => <<scan.h, scan.v>> \in ScanAddrs

(***************************************************************************)
(* SpecBus: a ParDataWriter<N> and a ParDataReader<N> on the same N lines, *)
(* used by one owner, one accessor call at a time.                         *)
(***************************************************************************)
Widths == {1, 4, 8, 9, 16, 17, 32, 33}
U8Inputs == {0, 1, 15, 16, 165, 200, 255}
U16Inputs == {0, 255, 256, 42300, 65535}
U32Inputs == {<<0, 0>>, <<0, 65535>>, <<32768, 1>>, <<42300, 255>>, <<65535, 65535>>}

BusIdle == [pc |-> "idle", op |-> "none", i |-> 0, value |-> 0, ret |-> None]

InitBus ==
    /\ bus_N \in Widths
    /\ \E level \in BOOLEAN : bus_pins = [p \in 0 .. bus_N - 1 |-> level]
    /\ bus_call = BusIdle
    /\ bus_pre = bus_pins
    /\ bus_last = <<>>
    /\ overflow_checks \in BOOLEAN

\* entry of an accessor: its assertion, then `let mut i = 0`
Enter(op, arg) ==
    /\ bus_call' = [pc |-> IF Accepts(op, bus_N) THEN "loop" ELSE "panicked",
                    op |-> op, i |-> 0, value |-> arg, ret |-> None]
    /\ bus_pre' = bus_pins
    /\ UNCHANGED <<bus_N, bus_pins, bus_last, overflow_checks, notBus>>

ReadU8 ==
    /\ bus_call.pc = "idle"
    /\ Enter("read_u8", Zero(8))

ReadU16 ==
    /\ bus_call.pc = "idle"
    /\ Enter("read_u16", Zero(16))

ReadU32 ==
    /\ bus_call.pc = "idle"
    /\ Enter("read_u32", Zero(32))

WriteU8 ==
    /\ bus_call.pc = "idle"
    /\ \E value \in U8Inputs : Enter("write_u8", value)

WriteU16 ==
    /\ bus_call.pc = "idle"
    /\ \E value \in U16Inputs : Enter("write_u16", value)

WriteU32 ==
    /\ bus_call.pc = "idle"
    /\ \E value \in U32Inputs : Enter("write_u32", value)

\* one iteration of a read accessor's loop
ReadLoop ==
    /\ bus_call.pc = "loop"
    /\ bus_call.op \in ReadOps
    /\ LoopCond(bus_call.op, bus_call.i, bus_N)
    /\ LET w == Width(bus_call.op) IN
          bus_call' =
             IF bus_pins[bus_call.i] /\ ShiftOverflows(w, bus_call.i) /\ overflow_checks
             THEN [bus_call EXCEPT !.pc = "panicked"]
             ELSE [bus_call EXCEPT !.i = bus_call.i + 1,
                      !.value = ReadStep(w, bus_pins, bus_call.i, bus_call.value)]
    /\ UNCHANGED <<bus_N, bus_pins, bus_pre, bus_last, overflow_checks, notBus>>

\* one iteration of a write accessor's loop
WriteLoop ==
    /\ bus_call.pc = "loop"
    /\ bus_call.op \in WriteOps
    /\ LoopCond(bus_call.op, bus_call.i, bus_N)
    /\ LET w == Width(bus_call.op) IN
          IF ShiftOverflows(w, bus_call.i) /\ overflow_checks
          THEN /\ bus_call' = [bus_call EXCEPT !.pc = "panicked"]
               /\ UNCHANGED bus_pins
          ELSE /\ bus_call' = [bus_call EXCEPT !.i = bus_call.i + 1]
               /\ bus_pins' = WriteStep(w, bus_pins, bus_N, bus_call.i, bus_call.value)
    /\ UNCHANGED <<bus_N, bus_pre, bus_last, overflow_checks, notBus>>

\* the loop ends: a read accessor returns `value`, a write accessor returns
Return ==
    /\ bus_call.pc = "loop"
    /\ ~LoopCond(bus_call.op, bus_call.i, bus_N)
    /\ bus_call' = [bus_call EXCEPT !.pc = "idle",
                       !.ret = IF bus_call.op \in ReadOps THEN bus_call.value ELSE None]
    /\ bus_last' = IF bus_call.op \in WriteOps
                   THEN [op |-> bus_call.op, value |-> bus_call.value]
                   ELSE bus_last
    /\ UNCHANGED <<bus_N, bus_pins, bus_pre, overflow_checks, notBus>>

NextBus ==
    \/ ReadU8
    \/ ReadU16
    \/ ReadU32
    \/ WriteU8
    \/ WriteU16
    \/ WriteU32
    \/ ReadLoop
    \/ WriteLoop
    \/ Return

(***************************************************************************)
(* Claims about the parallel bus accessors (SpecBus).                      *)
(***************************************************************************)
\* the accessor `op` was called and has returned
Returned(op) == bus_call.pc = "idle" /\ bus_call.op = op

\* the accessor that returned last before the running one was the write `op`
LastWrite(op) == bus_last # <<>> /\ bus_last.op = op

\* the running or last accessor is an 8- or 16-bit one on a bus too wide for it
TooWide(op8, op16) ==
    \/ bus_call.op = op8 /\ bus_N > 8
    \/ bus_call.op = op16 /\ bus_N > 16

\* C6 as claimed: for N <= 8, write_u8(value) followed by read_u8 on the same
\* lines returns value; likewise for N <= 16 with write_u16 and read_u16.
C6_RoundTripAsClaimed ==
    /\ Returned("read_u8") /\ LastWrite("write_u8") => bus_call.ret = bus_last.value
    /\ Returned("read_u16") /\ LastWrite("write_u16") => bus_call.ret = bus_last.value

\* C6 as amended: the read returns the N low bits of the written value, which
\* is the value itself exactly when value < 2^N.
C6_RoundTripLowBits ==
    /\ Returned("read_u8") /\ LastWrite("write_u8") =>
          bus_call.ret = bus_last.value % Pow2(bus_N)
    /\ Returned("read_u16") /\ LastWrite("write_u16") =>
          bus_call.ret = bus_last.value % Pow2(bus_N)

C6_Witness ==
    /\ Returned("read_u8") /\ LastWrite("write_u8")
    /\ bus_N = 4 /\ bus_last.value = 200 /\ bus_call.ret = 8

\* C7: write_u8 rejects, driving no pin, when N exceeds 8, and write_u16
\* rejects when N exceeds 16.
C7_WriteRejectsWide ==
    TooWide("write_u8", "write_u16") =>
       bus_call.pc = "panicked" /\ bus_pins = bus_pre

\* C8: read_u8 fails its assertion and returns no value when N exceeds 8,
\* read_u16 when N exceeds 16; within the limit neither ever fails.
C8_ReadRejectsWide ==
    /\ TooWide("read_u8", "read_u16") =>
          bus_call.pc = "panicked" /\ bus_call.i = 0 /\ bus_call.ret = None
    /\ bus_call.op \in {"read_u8", "read_u16"} /\ ~TooWide("read_u8", "read_u16") =>
          bus_call.pc # "panicked"

C8_Witness ==
    bus_call.op = "read_u16" /\ bus_N = 17 /\ bus_call.pc = "panicked"

\* C9: the 32-bit accessors never reject; read_u32 returns the value packed
\* from pins 0..31 and ignores pins >= 32; write_u32 drives pins 0..31 from
\* the bits of the value and leaves every pin >= 32 at its previous level.
C9_U32IgnoresHighPins ==
    /\ bus_call.op \in {"read_u32", "write_u32"} => bus_call.pc # "panicked"
    /\ Returned("read_u32") =>
          bus_call.ret = <<LinesValue(bus_pins, 16, Min(bus_N, 32)),
                           LinesValue(bus_pins, 0, Min(bus_N, 16))>>
    /\ Returned("write_u32") =>
          \A p \in 0 .. bus_N - 1 :
             bus_pins[p] = IF p >= 32 THEN bus_pre[p]
                           ELSE IF p >= 16 THEN BitAt(bus_call.value[1], p - 16) = 1
                           ELSE BitAt(bus_call.value[2], p) = 1

C9_Witness ==
    /\ Returned("read_u32") /\ bus_N = 33 /\ bus_pins[32]
    /\ LastWrite("write_u32") /\ bus_last.value = <<32768, 1>>
    /\ bus_call.ret = <<32768, 1>>

\* the levels a write accessor leaves on the lines when it returns
WriteTarget ==
    [p \in 0 .. bus_N - 1 |-> WriteBit(Width(bus_call.op), bus_call.value, p)]

\* C20: during a write accessor that takes the bus from value a to value b
\* (on a bus no wider than the integer written), the lines never carry a
\* value other than a or b.
C20_NoIntermediateValue ==
    bus_call.op \in WriteOps /\ bus_N <= Width(bus_call.op) =>
       bus_pins = bus_pre \/ bus_pins = WriteTarget

\* the array whose element i is bit i of the w-bit `value` (no bit beyond w)
BitsOfValue(w, value, N) ==
    [i \in 0 .. N - 1 |-> i < w /\ ValBit(w, value, i) = 1]

\* the sum over i < N of 2^i for every true bits[i], as a u8 or u16, or as the
\* pair of what lies above and below 2^16
PackBits(w, bits, N) ==
    IF w = 32 THEN <<LinesValue(bits, 16, N), LinesValue(bits, 0, Min(N, 16))>>
    ELSE LinesValue(bits, 0, N)

\* C24 as claimed: index 0 is the least significant bit for every accessor:
\* read_uK returns the sum over i < N of 2^i for each high pin i, which is
\* the packing of read_bits' array, and write_uK(value) leaves the pins as
\* write_bits does for the array whose element i is bit i of value.
C24_LsbFirstAsClaimed ==
    /\ \A op \in ReadOps :
          Returned(op) =>
             bus_call.ret = PackBits(Width(op), ReadBits(bus_pins, bus_N), bus_N)
    /\ \A op \in WriteOps :
          Returned(op) =>
             bus_pins = WriteBits(bus_pre, bus_N,
                                  BitsOfValue(Width(op), bus_call.value, bus_N))

\* C24 as amended: the same, for a bus of N <= K lines, K being the width of
\* the integer the accessor packs or unpacks.
C24_LsbFirstWithinWidth ==
    /\ \A op \in ReadOps :
          Returned(op) /\ bus_N <= Width(op) =>
             bus_call.ret = PackBits(Width(op), ReadBits(bus_pins, bus_N), bus_N)
    /\ \A op \in WriteOps :
          Returned(op) /\ bus_N <= Width(op) =>
             bus_pins = WriteBits(bus_pre, bus_N,
                                  BitsOfValue(Width(op), bus_call.value, bus_N))

C24_Witness ==
    /\ Returned("read_u16") /\ bus_N = 16
    /\ LastWrite("write_u16") /\ bus_last.value = 42300
    /\ ~bus_pins[0] /\ bus_pins[2] /\ bus_pins[15]
    /\ bus_call.ret = 42300

(***************************************************************************)
(* SpecSipo: a SipoSingle<N> and the chain of N 74HC595 devices it drives. *)
(* The devices react to the levels of the pins: a rising shift clock moves *)
(* every stage one place away from the controller and takes the SER level  *)
(* into the first stage; a rising latch clock copies the shift register to *)
(* the outputs; an asserted clear line empties the shift register.         *)
(***************************************************************************)
\* frames of n bytes: the first n bytes of 0xA5 0x3C 0x0F 0xFF and of
\* 0x0F 0xA5 0x00 0x3C, repeated
FrameA == <<165, 60, 15, 255>>
FrameB == <<15, 165, 0, 60>>
FrameInputs(n) ==
    {[k \in 1 .. n |-> FrameA[((k - 1) % 4) + 1]],
     [k \in 1 .. n |-> FrameB[((k - 1) % 4) + 1]]}

\* one shift clock tick as the devices see it
ClockRise(reg, ser, cleared) ==
    IF cleared THEN reg
    ELSE [l \in DOMAIN reg |-> <<ser[l]>> \o SubSeq(reg[l], 1, Len(reg[l]) - 1)]

\* mutant: only the first lane's devices latch
LatchRiseFirstLane(reg) ==
    [l \in DOMAIN reg |-> IF l = 0 THEN reg[l] ELSE out_reg[l]]

\* one latch pulse as the devices see it
LatchRise(reg) == reg

\* the clear line at its active level, as the devices see it
ClearRegs(reg) == [l \in DOMAIN reg |-> [q \in DOMAIN reg[l] |-> FALSE]]

\* mutant: the clear pulse always drives the line low first
ClearActiveAlwaysLow(active_low) == FALSE

\* mutant: the clear line always idles high
ClearIdleAlwaysHigh(active_low) == TRUE

\* ClearLine: the level that asserts the line, and the level it idles at
ClearActive(active_low) == ~active_low
ClearIdle(active_low) == active_low

ClearAsserted == sipo_cfg.clear /\ srclr = ClearActive(sipo_cfg.active_low)

\* shift_exact: byte_idx = bit / 8 (frames are indexed from 1 here)
ByteIdx(bit) == bit \div 8

\* mutant: shift_exact sends the least significant bit first
BitInByteLsbFirst(bit) == bit % 8

\* shift_exact: bit_in_byte = 7 - (bit % 8)
BitInByte(bit) == 7 - (bit % 8)

\* shift_exact: bit_val = ((frame[byte_idx] >> bit_in_byte) & 0x01) != 0
BitVal(frame, bit) == BitAt(frame[ByteIdx(bit) + 1], BitInByte(bit)) = 1

\* shift_exact: for bit in 0..(8 * N)
TotalBits(N) == 8 * N

SipoIdle == [pc |-> "idle", op |-> "none", prev |-> "none", bit |-> 0,
             frame |-> <<>>]

InitSipo ==
    /\ \E n \in 1 .. MaxChain, latch \in BOOLEAN, clear \in BOOLEAN, al \in BOOLEAN :
          /\ clear \/ al
          /\ sipo_cfg = [N |-> n, latch |-> latch, clear |-> clear, active_low |-> al]
          /\ srclr = ClearIdle(al)
          /\ \E level \in BOOLEAN :
                /\ shift_reg = [l \in {0} |-> [q \in 1 .. 8 * n |-> level]]
                /\ out_reg = shift_reg
    /\ ser_out = [l \in {0} |-> FALSE]
    /\ srclk = FALSE
    /\ rclk = FALSE
    /\ sipo_call = SipoIdle
    /\ ticked = <<>>

\* a call of `op` by the owner of the chain
SipoEnter(op, pc, frame) ==
    /\ sipo_call' = [pc |-> pc, op |-> op, prev |-> sipo_call.op, bit |-> 0,
                     frame |-> frame]
    /\ UNCHANGED <<sipo_cfg, ser_out, srclk, rclk, srclr, shift_reg, out_reg,
                   notSipo>>

\* SipoSingle::shift_exact(frame)
ShiftExact ==
    /\ sipo_call.pc = "idle"
    /\ \E frame \in FrameInputs(sipo_cfg.N) :
          SipoEnter("shift_exact", "set_bit", frame)
    /\ ticked' = <<>>

\* SipoSingle::write_exact(frame): shift_exact(frame), then ctrl.latch_all()
WriteExact ==
    /\ sipo_call.pc = "idle"
    /\ \E frame \in FrameInputs(sipo_cfg.N) :
          SipoEnter("write_exact", "set_bit", frame)
    /\ ticked' = <<>>

\* ctrl.latch_all(), called on its own
LatchAll ==
    /\ sipo_call.pc = "idle"
    /\ SipoEnter("latch_all", "latch_all", sipo_call.frame)
    /\ UNCHANGED ticked

\* SipoSingle::clear(): ctrl.clear_all()
Clear ==
    /\ sipo_call.pc = "idle"
    /\ SipoEnter("clear", "clear_all", sipo_call.frame)
    /\ UNCHANGED ticked

\* shift_exact loop body: self.lane.set_bit(bit_val)
LaneSetBit ==
    /\ sipo_call.pc = "set_bit"
    /\ ser_out' = [ser_out EXCEPT ![0] = BitVal(sipo_call.frame, sipo_call.bit)]
    /\ sipo_call' = [sipo_call EXCEPT !.pc = "tick"]
    /\ UNCHANGED <<sipo_cfg, srclk, rclk, srclr, shift_reg, out_reg, ticked,
                   notSipo>>

\* ShiftClockLine::tick: self.srclk.set_high()
TickHigh ==
    /\ sipo_call.pc = "tick"
    /\ srclk' = TRUE
    /\ IF ~srclk
       THEN /\ shift_reg' = ClockRise(shift_reg, ser_out, ClearAsserted)
            /\ ticked' = Append(ticked, ser_out[0])
       ELSE UNCHANGED <<shift_reg, ticked>>
    /\ sipo_call' = [sipo_call EXCEPT !.pc = "tick_low"]
    /\ UNCHANGED <<sipo_cfg, ser_out, rclk, srclr, out_reg, notSipo>>

\* ShiftClockLine::tick: self.srclk.set_low(); then the next bit, or the end
\* of shift_exact
TickLow ==
    /\ sipo_call.pc = "tick_low"
    /\ srclk' = FALSE
    /\ sipo_call' =
          IF sipo_call.bit + 1 < TotalBits(sipo_cfg.N)
          THEN [sipo_call EXCEPT !.pc = "set_bit", !.bit = sipo_call.bit + 1]
          ELSE [sipo_call EXCEPT !.bit = sipo_call.bit + 1,
                   !.pc = IF sipo_call.op = "write_exact" THEN "latch_all" ELSE "idle"]
    /\ UNCHANGED <<sipo_cfg, ser_out, rclk, srclr, shift_reg, out_reg, ticked,
                   notSipo>>

\* mutant: latch_all pulses a latch pin whether or not one is configured
LatchHighUnchecked ==
    /\ sipo_call.pc = "latch_all"
    /\ rclk' = TRUE
    /\ out_reg' = IF ~rclk THEN LatchRise(shift_reg) ELSE out_reg
    /\ sipo_call' = [sipo_call EXCEPT !.pc = "latch_low"]
    /\ UNCHANGED <<sipo_cfg, ser_out, srclk, srclr, shift_reg, ticked, notSipo>>

\* ControlGroup::latch_all: LatchLine::pulse's set_high, or the warning
LatchHigh ==
    /\ sipo_call.pc = "latch_all"
    /\ IF sipo_cfg.latch
       THEN /\ rclk' = TRUE
            /\ out_reg' = IF ~rclk THEN LatchRise(shift_reg) ELSE out_reg
            /\ sipo_call' = [sipo_call EXCEPT !.pc = "latch_low"]
       ELSE /\ sipo_call' = [sipo_call EXCEPT !.pc = "idle"]
            /\ UNCHANGED <<rclk, out_reg>>
    /\ UNCHANGED <<sipo_cfg, ser_out, srclk, srclr, shift_reg, ticked, notSipo>>

\* LatchLine::pulse: self.rclk.set_low()
LatchLow ==
    /\ sipo_call.pc = "latch_low"
    /\ rclk' = FALSE
    /\ sipo_call' = [sipo_call EXCEPT !.pc = "idle"]
    /\ UNCHANGED <<sipo_cfg, ser_out, srclk, srclr, shift_reg, out_reg, ticked,
                   notSipo>>

\* ControlGroup::clear_all: ClearLine::pulse's first write, or the warning
ClearFirst ==
    /\ sipo_call.pc = "clear_all"
    /\ IF sipo_cfg.clear
       THEN /\ srclr' = ClearActive(sipo_cfg.active_low)
            /\ shift_reg' = ClearRegs(shift_reg)
            /\ sipo_call' = [sipo_call EXCEPT !.pc = "clear_release"]
       ELSE /\ sipo_call' = [sipo_call EXCEPT !.pc = "idle"]
            /\ UNCHANGED <<srclr, shift_reg>>
    /\ UNCHANGED <<sipo_cfg, ser_out, srclk, rclk, out_reg, ticked, notSipo>>

\* ClearLine::pulse's second write
ClearSecond ==
    /\ sipo_call.pc = "clear_release"
    /\ srclr' = ClearIdle(sipo_cfg.active_low)
    /\ sipo_call' = [sipo_call EXCEPT !.pc = "idle"]
    /\ UNCHANGED <<sipo_cfg, ser_out, srclk, rclk, shift_reg, out_reg, ticked,
                   notSipo>>

NextSipo ==
    \/ ShiftExact
    \/ WriteExact
    \/ LatchAll
    \/ Clear
    \/ LaneSetBit
    \/ TickHigh
    \/ TickLow
    \/ LatchHigh
    \/ LatchLow
    \/ ClearFirst
    \/ ClearSecond

(***************************************************************************)
(* Claims about the shift-register chain (SpecSipo).                       *)
(***************************************************************************)
\* the byte on the outputs QH..QA of chip k of a lane, chip 1 being the one
\* nearest to the controller; QA is the first stage of the chip
ChipByte(reg, k) == LinesValue([q \in 0 .. 7 |-> reg[8 * (k - 1) + q + 1]], 0, 8)

\* the bits of a frame in index order, each byte most significant bit first
FrameBits(frame) ==
    [b \in 1 .. 8 * Len(frame) |->
        BitAt(frame[((b - 1) \div 8) + 1], 7 - ((b - 1) % 8)) = 1]

\* the running or last call shifts a frame
Shifting == sipo_call.op \in {"shift_exact", "write_exact"}

\* a latch pulse has just followed the shifting of sipo_call.frame
LatchedAfterShift ==
    /\ sipo_call.pc = "idle"
    /\ sipo_cfg.latch
    /\ \/ sipo_call.op = "write_exact"
       \/ sipo_call.op = "latch_all" /\ sipo_call.prev \in {"shift_exact", "write_exact"}

\* C10: shift_exact emits the bytes in index order, each most significant bit
\* first, one bit per shift clock tick, 8N ticks in all; after the latch the
\* chip farthest from the controller holds frame[0], the nearest frame[N-1].
C10_FarChipFirst ==
    /\ Shifting =>
          /\ Len(ticked) = (IF sipo_call.pc = "tick_low" THEN sipo_call.bit + 1
                            ELSE sipo_call.bit)
          /\ ticked = SubSeq(FrameBits(sipo_call.frame), 1, Len(ticked))
    /\ Shifting /\ sipo_call.pc \in {"idle", "latch_all", "latch_low"} =>
          Len(ticked) = 8 * sipo_cfg.N
    /\ LatchedAfterShift =>
          \A k \in 1 .. sipo_cfg.N :
             ChipByte(out_reg[0], k) = sipo_call.frame[sipo_cfg.N + 1 - k]

C10_Witness ==
    /\ LatchedAfterShift /\ sipo_call.op = "latch_all"
    /\ sipo_cfg.N = 2 /\ sipo_call.frame = <<165, 60>>
    /\ ChipByte(out_reg[0], 2) = 165 /\ ChipByte(out_reg[0], 1) = 60

(***************************************************************************)
(* SpecBank: a ParallelBank<LANES, N> and the LANES chains of N 74HC595    *)
(* devices it drives through one ControlGroup, and the shift-register      *)
(* pixel writer BwPixelWriter8h8v1ch8 built on a ParallelBank<3, 1>.       *)
(***************************************************************************)
\* BwPixelWriter8h8v1ch8::p_sipo_bank: ParallelBank<3, 1>
PW_LANES == 3
PW_N == 1

\* per-lane frames of n bytes for l lanes: lane k starts k bytes into
\* 0xA5 0x3C 0x0F 0xFF, into 0xFF 0x00 0x0F 0xA5, or into 0x0F 0xA5 0x00 0x3C
\* (the last gives the first lane a byte that differs from its mirror image)
FrameC == <<255, 0, 15, 165>>
BankFrameInputs(l, n) ==
    {[lane \in 0 .. l - 1 |-> [k \in 1 .. n |-> FrameA[((lane + k - 1) % 4) + 1]]],
     [lane \in 0 .. l - 1 |-> [k \in 1 .. n |-> FrameC[((lane + k - 1) % 4) + 1]]],
     [lane \in 0 .. l - 1 |-> [k \in 1 .. n |-> FrameB[((lane + k - 1) % 4) + 1]]]}

\* (i, j, color) arguments of the shift-register writer's write_pixel: an
\* inner cell, the last cell of addr_range, and a row beyond addr_range
PixelInputs == {<<3, 5, 200>>, <<150, 200, 255>>, <<200, 3, 5>>}

\* mutant: the bank sends the least significant bit of each byte first
BankBitValLsbFirst(frames, lane, bit) ==
    BitAt(frames[lane][ByteIdx(bit) + 1], bit % 8) = 1

\* mutant: every lane is fed from the first lane's frame
BankBitValFirstLane(frames, lane, bit) ==
    BitAt(frames[0][ByteIdx(bit) + 1], BitInByte(bit)) = 1

\* ParallelBank::shift_exact: byte = frames[lane_idx][byte_idx],
\* bit = ((byte >> bit_in_byte) & 0x01) != 0
BankBitVal(frames, lane, bit) ==
    BitAt(frames[lane][ByteIdx(bit) + 1], BitInByte(bit)) = 1

\* mutant: the address lanes exchanged
PixelFrameColumnFirst(i, j, color) ==
    [lane \in 0 .. PW_LANES - 1 |->
        IF lane = 0 THEN <<color>> ELSE IF lane = 1 THEN <<j>> ELSE <<i>>]

\* write_pixel: frame = [[color], [i], [j]]
PixelFrame(i, j, color) ==
    [lane \in 0 .. PW_LANES - 1 |->
        IF lane = 0 THEN <<color>> ELSE IF lane = 1 THEN <<i>> ELSE <<j>>]

\* the bank as from_resources builds it: 3 lanes of 1 byte, latch line,
\* active-low clear line
FromResources ==
    /\ sipo_cfg.LANES = PW_LANES
    /\ sipo_cfg.N = PW_N
    /\ sipo_cfg.latch
    /\ sipo_cfg.clear
    /\ sipo_cfg.active_low

BankIdle == [pc |-> "idle", op |-> "none", prev |-> "none", bit |-> 0,
             frame |-> <<>>, lane |-> 0, px |-> <<>>]

InitBank ==
    /\ \E l \in 1 .. MaxLanes, n \in 1 .. MaxChain,
          latch \in BOOLEAN, clear \in BOOLEAN, al \in BOOLEAN :
          /\ clear \/ al
          /\ sipo_cfg = [LANES |-> l, N |-> n, latch |-> latch, clear |-> clear,
                         active_low |-> al]
          /\ srclr = ClearIdle(al)
          /\ ser_out = [lane \in 0 .. l - 1 |-> FALSE]
          /\ \E level \in BOOLEAN :
                /\ shift_reg = [lane \in 0 .. l - 1 |-> [q \in 1 .. 8 * n |-> level]]
                /\ out_reg = shift_reg
    /\ srclk = FALSE
    /\ rclk = FALSE
    /\ sipo_call = BankIdle
    /\ ticked = <<>>

\* a call of `op` by the owner of the bank
BankEnter(op, pc, frames, px) ==
    /\ sipo_call.pc = "idle"
    /\ sipo_call' = [pc |-> pc, op |-> op, prev |-> sipo_call.op, bit |-> 0,
                     frame |-> frames, lane |-> 0, px |-> px]
    /\ UNCHANGED <<sipo_cfg, ser_out, srclk, rclk, srclr, shift_reg, out_reg,
                   notSipo>>

\* ParallelBank::shift_exact(frames)
BankShiftExact ==
    /\ \E frames \in BankFrameInputs(sipo_cfg.LANES, sipo_cfg.N) :
          BankEnter("shift_exact", "set_bit", frames, <<>>)
    /\ ticked' = <<>>

\* ParallelBank::write_exact(frames): shift_exact(frames), ctrl.latch_all()
BankWriteExact ==
    /\ \E frames \in BankFrameInputs(sipo_cfg.LANES, sipo_cfg.N) :
          BankEnter("write_exact", "set_bit", frames, <<>>)
    /\ ticked' = <<>>

\* bank.ctrl.latch_all(), called on its own
BankLatchAll ==
    /\ BankEnter("latch_all", "latch_all", sipo_call.frame, <<>>)
    /\ UNCHANGED ticked

\* ParallelBank::clear_all(): ctrl.clear_all()
BankClearAll ==
    /\ BankEnter("clear", "clear_all", sipo_call.frame, <<>>)
    /\ UNCHANGED ticked

\* BwPixelWriter8h8v1ch8::write_pixel(i, j, color):
\* p_sipo_bank.write_exact([[color], [i], [j]])
SipoWritePixel ==
    /\ FromResources
    /\ \E a \in PixelInputs :
          BankEnter("write_exact", "set_bit", PixelFrame(a[1], a[2], a[3]),
                    [i |-> a[1], j |-> a[2], color |-> a[3]])
    /\ ticked' = <<>>

\* mutant: shift_exact sets the first lane only before it ticks
BankLaneSetBitFirstOnly ==
    /\ sipo_call.pc = "set_bit"
    /\ ser_out' = [ser_out EXCEPT ![0] =
                      BankBitVal(sipo_call.frame, 0, sipo_call.bit)]
    /\ sipo_call' = [sipo_call EXCEPT !.lane = 0, !.pc = "tick"]
    /\ UNCHANGED <<sipo_cfg, srclk, rclk, srclr, shift_reg, out_reg, ticked,
                   notSipo>>

\* shift_exact inner loop: self.lanes[lane_idx].set_bit(bit), one lane per step
BankLaneSetBit ==
    /\ sipo_call.pc = "set_bit"
    /\ ser_out' = [ser_out EXCEPT ![sipo_call.lane] =
                      BankBitVal(sipo_call.frame, sipo_call.lane, sipo_call.bit)]
    /\ sipo_call' = IF sipo_call.lane + 1 < sipo_cfg.LANES
                    THEN [sipo_call EXCEPT !.lane = sipo_call.lane + 1]
                    ELSE [sipo_call EXCEPT !.lane = 0, !.pc = "tick"]
    /\ UNCHANGED <<sipo_cfg, srclk, rclk, srclr, shift_reg, out_reg, ticked,
                   notSipo>>

\* self.ctrl.shift.tick(): set_high; every chain takes its lane's SER level
BankTickHigh ==
    /\ sipo_call.pc = "tick"
    /\ srclk' = TRUE
    /\ IF ~srclk
       THEN /\ shift_reg' = ClockRise(shift_reg, ser_out, ClearAsserted)
            /\ ticked' = Append(ticked, ser_out)
       ELSE UNCHANGED <<shift_reg, ticked>>
    /\ sipo_call' = [sipo_call EXCEPT !.pc = "tick_low"]
    /\ UNCHANGED <<sipo_cfg, ser_out, rclk, srclr, out_reg, notSipo>>

NextBank ==
    \/ BankShiftExact
    \/ BankWriteExact
    \/ BankLatchAll
    \/ BankClearAll
    \/ SipoWritePixel
    \/ BankLaneSetBit
    \/ BankTickHigh
    \/ TickLow
    \/ LatchHigh
    \/ LatchLow
    \/ ClearFirst
    \/ ClearSecond

(***************************************************************************)
(* Claims about the parallel bank and the shift-register writer (SpecBank).*)
(***************************************************************************)
Lanes == 0 .. sipo_cfg.LANES - 1

\* the running or last call is a write_pixel of the shift-register writer
PixelCall == Shifting /\ sipo_call.px # <<>>

\* every chip of every lane shows the byte of that lane's frame it is due
FramesOn(reg) ==
    \A l \in Lanes, k \in 1 .. sipo_cfg.N :
       ChipByte(reg[l], k) = sipo_call.frame[l][sipo_cfg.N + 1 - k]

\* the levels of the pins the ControlGroup and the lanes drive
BankPins == <<ser_out, srclk, rclk, srclr>>

\* C11: ParallelBank::shift_exact walks bit positions 0..8N-1; at tick i the
\* SER line of every lane carries bit i (most significant bit first within
\* each byte) of that lane's own frame when the shared shift clock rises, and
\* a call makes exactly 8N ticks.
C11_LockstepTicks ==
    /\ Shifting =>
          /\ Len(ticked) = (IF sipo_call.pc = "tick_low" THEN sipo_call.bit + 1
                            ELSE sipo_call.bit)
          /\ \A t \in 1 .. Len(ticked), l \in Lanes :
                ticked[t][l] = FrameBits(sipo_call.frame[l])[t]
    /\ Shifting /\ sipo_call.pc \in {"idle", "latch_all", "latch_low"} =>
          Len(ticked) = 8 * sipo_cfg.N

C11_Witness ==
    /\ sipo_call.op = "shift_exact" /\ sipo_call.pc = "idle"
    /\ sipo_cfg.LANES = 3 /\ sipo_cfg.N = 2 /\ Len(ticked) = 16
    /\ sipo_call.frame[0] = <<165, 60>> /\ sipo_call.frame[1] = <<60, 15>>
    /\ ticked[1][0] /\ ~ticked[1][1] /\ ~ticked[1][2]

\* C12: after ParallelBank::write_exact(frames) with a latch line, the latched
\* output of every lane equals that lane's frame, and the outputs of all lanes
\* change in one and the same step, the rising latch clock, which shows every
\* lane's shift register at once; during the shifting no output changes.
C12_LanesLatchTogether ==
    /\ [](LatchedAfterShift => FramesOn(out_reg))
    /\ [][out_reg' # out_reg =>
             /\ ~rclk /\ rclk'
             /\ sipo_call.pc = "latch_all"
             /\ out_reg' = shift_reg]_vars
    /\ [][sipo_call.op = "write_exact" /\ sipo_call.pc = "latch_all" /\ sipo_cfg.latch =>
             FramesOn(out_reg')]_vars

C12_Witness ==
    /\ LatchedAfterShift /\ sipo_call.op = "write_exact" /\ sipo_call.px = <<>>
    /\ sipo_cfg.LANES = 3 /\ sipo_cfg.N = 1
    /\ sipo_call.frame = [lane \in 0 .. 2 |-> <<FrameC[lane + 1]>>]
    /\ ChipByte(out_reg[0], 1) = 255
    /\ ChipByte(out_reg[1], 1) = 0
    /\ ChipByte(out_reg[2], 1) = 15

\* C13: a write_pixel(i, j, color) of the shift-register writer shifts all
\* address and color bits first and then issues exactly one latch pulse: the
\* latch clock rises only after the last shift clock tick of the call, the
\* call returns only from the falling edge of that pulse, and the latched
\* outputs then show color on lane 0, i on lane 1 and j on lane 2.
C13_OneLatchPerPixel ==
    /\ [](PixelCall /\ sipo_call.pc \in {"set_bit", "tick", "tick_low", "latch_all", "idle"}
             => ~rclk)
    /\ [](PixelCall /\ sipo_call.pc = "idle" =>
             /\ ChipByte(out_reg[0], 1) = sipo_call.px.color
             /\ ChipByte(out_reg[1], 1) = sipo_call.px.i
             /\ ChipByte(out_reg[2], 1) = sipo_call.px.j)
    /\ [][PixelCall /\ rclk' # rclk =>
             \/ /\ sipo_call.pc = "latch_all" /\ sipo_call'.pc = "latch_low"
                /\ Len(ticked) = TotalBits(sipo_cfg.N)
             \/ sipo_call.pc = "latch_low" /\ sipo_call'.pc = "idle"]_vars
    /\ [][PixelCall /\ sipo_call.pc # "idle" /\ sipo_call'.pc # sipo_call.pc
             /\ sipo_call'.pc = "latch_all" =>
             /\ sipo_call.pc = "tick_low"
             /\ sipo_call.bit + 1 = TotalBits(sipo_cfg.N)]_vars
    /\ [][PixelCall /\ sipo_call'.pc # sipo_call.pc /\ sipo_call'.pc = "idle" =>
             sipo_call.pc = "latch_low"]_vars

C13_Witness ==
    /\ PixelCall /\ sipo_call.pc = "idle"
    /\ sipo_call.px = [i |-> 3, j |-> 5, color |-> 200]
    /\ ChipByte(out_reg[0], 1) = 200
    /\ ChipByte(out_reg[1], 1) = 3
    /\ ChipByte(out_reg[2], 1) = 5

\* C14: without a latch line latch_all() returns having changed no pin level
\* and no register; without a clear line clear_all() does likewise; so
\* write_exact on a bank without a latch line fills the shift registers with
\* the frames but never changes the latched outputs.
C14_AbsentLinesNoOp ==
    /\ [][sipo_call.pc = "latch_all" /\ ~sipo_cfg.latch =>
             /\ sipo_call'.pc = "idle"
             /\ UNCHANGED <<BankPins, shift_reg, out_reg>>]_vars
    /\ [][sipo_call.pc = "clear_all" /\ ~sipo_cfg.clear =>
             /\ sipo_call'.pc = "idle"
             /\ UNCHANGED <<BankPins, shift_reg, out_reg>>]_vars
    /\ [][~sipo_cfg.latch => out_reg' = out_reg]_vars
    /\ [](~sipo_cfg.latch /\ sipo_call.op = "write_exact" /\ sipo_call.pc = "idle"
             => FramesOn(shift_reg))

C14_Witness ==
    /\ ~sipo_cfg.latch /\ sipo_call.op = "write_exact" /\ sipo_call.pc = "idle"
    /\ sipo_cfg.LANES = 2
    /\ FramesOn(shift_reg) /\ ~FramesOn(out_reg)

\* C15: a write_pixel of the shift-register writer whose coordinates lie
\* outside addr_range() (i > 150 or j > 200) does not pass that address
\* through to the latched address lanes (the bus-scan writer stores nothing
\* for such a call).
C15_OutOfRangeNotPassed ==
    PixelCall /\ sipo_call.pc = "idle"
       /\ (sipo_call.px.i > SipoAddrRange[1][2] \/ sipo_call.px.j > SipoAddrRange[2][2])
       => ~(/\ ChipByte(out_reg[1], 1) = sipo_call.px.i
            /\ ChipByte(out_reg[2], 1) = sipo_call.px.j)

\* every stage of every lane's shift register is empty
ShiftEmpty(reg) == \A l \in Lanes : \A q \in DOMAIN reg[l] : ~reg[l][q]

C29_SerialSetBeforeClock ==
    /\ [][ser_out' # ser_out =>
             ~srclk /\ ~srclk' /\ sipo_call.pc = "set_bit"]_vars
    /\ [][~srclk /\ srclk' => sipo_call.pc = "tick"]_vars
    /\ [](Shifting /\ sipo_call.pc \in {"tick", "tick_low"} =>
             \A l \in Lanes :
                ser_out[l] = BankBitVal(sipo_call.frame, l, sipo_call.bit))
    /\ [][sipo_call'.op = "shift_exact" =>
             UNCHANGED <<rclk, srclr, out_reg>>]_vars
    /\ [][sipo_call.pc \in {"set_bit", "tick", "tick_low"} =>
             UNCHANGED <<rclk, srclr, out_reg>>]_vars

C29_Witness ==
    /\ sipo_call.op = "shift_exact" /\ sipo_call.pc = "tick_low" /\ srclk
    /\ sipo_cfg.LANES = 3 /\ sipo_call.bit = 5
    /\ ser_out[0] /\ ~ser_out[1]
    /\ out_reg # shift_reg

\* the next pin write of SipoSingle::shift_exact / write_exact for `frame` at
\* the position of the running call, and what the chain's devices make of it
SingleStep(frame) ==
    CASE sipo_call.pc = "set_bit" ->
            /\ ser_out' = [ser_out EXCEPT ![0] = BitVal(frame, sipo_call.bit)]
            /\ sipo_call'.pc = "tick"
            /\ UNCHANGED <<srclk, rclk, srclr, shift_reg, out_reg>>
      [] sipo_call.pc = "tick" ->
            /\ srclk' = TRUE
            /\ shift_reg' = ClockRise(shift_reg, ser_out, ClearAsserted)
            /\ sipo_call'.pc = "tick_low"
            /\ UNCHANGED <<ser_out, rclk, srclr, out_reg>>
      [] sipo_call.pc = "tick_low" ->
            /\ srclk' = FALSE
            /\ sipo_call'.bit = sipo_call.bit + 1
            /\ sipo_call'.pc =
                  IF sipo_call.bit + 1 < TotalBits(sipo_cfg.N) THEN "set_bit"
                  ELSE IF sipo_call.op = "write_exact" THEN "latch_all" ELSE "idle"
            /\ UNCHANGED <<ser_out, rclk, srclr, shift_reg, out_reg>>
      [] sipo_call.pc = "latch_all" /\ sipo_cfg.latch ->
            /\ rclk' = TRUE
            /\ out_reg' = LatchRise(shift_reg)
            /\ sipo_call'.pc = "latch_low"
            /\ UNCHANGED <<ser_out, srclk, srclr, shift_reg>>
      [] sipo_call.pc = "latch_all" /\ ~sipo_cfg.latch ->
            /\ sipo_call'.pc = "idle"
            /\ UNCHANGED <<ser_out, srclk, rclk, srclr, shift_reg, out_reg>>
      [] sipo_call.pc = "latch_low" ->
            /\ rclk' = FALSE
            /\ sipo_call'.pc = "idle"
            /\ UNCHANGED <<ser_out, srclk, srclr, shift_reg, out_reg>>

\* C31: a ParallelBank<1, N> makes, at every position of shift_exact and
\* write_exact, the pin write that SipoSingle<N> makes at that position for
\* the same frame, so both produce the same sequence of serial data, shift
\* clock and latch events; the bits clocked in are the frame's, most
\* significant bit first, 8N of them.
C31_OneLaneBankIsSingle ==
    /\ [][sipo_cfg.LANES = 1 /\ Shifting /\ sipo_call.pc # "idle" =>
             SingleStep(sipo_call.frame[0])]_vars
    /\ [][sipo_cfg.LANES = 1 /\ sipo_call.pc = "idle" /\ Shifting' =>
             /\ sipo_call'.pc = "set_bit" /\ sipo_call'.bit = 0
             /\ UNCHANGED <<BankPins, shift_reg, out_reg>>]_vars
    /\ [](sipo_cfg.LANES = 1 /\ Shifting =>
             [t \in 1 .. Len(ticked) |-> ticked[t][0]]
                = SubSeq(FrameBits(sipo_call.frame[0]), 1, Len(ticked)))

C31_Witness ==
    /\ sipo_cfg.LANES = 1 /\ sipo_cfg.N = 2 /\ sipo_cfg.latch
    /\ sipo_call.op = "write_exact" /\ sipo_call.pc = "idle"
    /\ sipo_call.frame[0] = <<15, 165>> /\ Len(ticked) = 16
    /\ ChipByte(out_reg[0], 2) = 15 /\ ChipByte(out_reg[0], 1) = 165

FrameAddrRange(rows, cols) == <<<<0, rows - 1>>, <<0, cols - 1>>>>

\* the cells of the scaled frame
DrawCells == (0 .. DrawRows - 1) \X (0 .. DrawCols - 1)

\* frame[row][col] of the scaled frame is in bounds
InDrawFrame(row, col) == row < DrawRows /\ col < DrawCols

\* addr_range() of the other writers: one that starts above 0 and one that
\* ends at the largest u8 in both directions
DrawRanges == {<<<<1, 2>>, <<0, 1>>>>, <<<<254, 255>>, <<255, 255>>>>}

\* (i_start, j_start, width, height) of draw_rectangle: a rectangle inside
\* every frame, empty ones at and away from row and column 0, and one whose
\* last row is 255
RectInputs == {<<0, 1, 2, 2>>, <<0, 0, 0, 1>>, <<1, 0, 0, 2>>, <<1, 1, 1, 0>>,
               <<0, 0, 1, 0>>, <<254, 0, 2, 1>>}

\* a + b in u8: the wrapped value, and whether the exact sum left the type
U8Add(a, b) == [val |-> (a + b) % 256, ovf |-> a + b > 255]

\* a - b in u8
U8Sub(a, b) == [val |-> (a - b + 256) % 256, ovf |-> a < b]

\* start + extent - AddrT::one() as draw_rectangle evaluates it, left to right
RectEnd(start, extent) ==
    [val |-> U8Sub(U8Add(start, extent).val, 1).val,
     ovf |-> U8Add(start, extent).ovf \/ U8Sub(U8Add(start, extent).val, 1).ovf]

\* Drawer::new(&mut pixel_writer) on a freshly built writer
InitDraw ==
    /\ \E bus \in BOOLEAN :
          IF bus
          THEN /\ draw_cfg = [kind |-> "bus_scan",
                              range |-> FrameAddrRange(DrawRows, DrawCols)]
               /\ bufs = [s \in {0, 1} |-> [c \in DrawCells |-> FB_INIT]]
          ELSE /\ \E r \in DrawRanges : draw_cfg = [kind |-> "other", range |-> r]
               /\ bufs = <<>>
    /\ draw_call = [pc |-> "idle", op |-> "none", prev |-> "none", n |-> 0,
                    i |-> 0, j |-> 0, color |-> 0,
                    i_start |-> 0, i_end |-> 0, j_start |-> 0, j_end |-> 0,
                    args |-> <<>>]
    /\ draw_log = <<>>
    /\ overflow_checks \in BOOLEAN
    /\ active_idx = 0
    /\ prod = <<>>
    /\ scan = <<>>
    /\ haddr_pins = <<>>
    /\ vaddr_pins = <<>>
    /\ data_pins = <<>>
    /\ nswaps = 0
    /\ nwrites = 0
    /\ dirty = {}
    /\ last_wr = <<>>
    /\ scan_obs = <<>>
    /\ bus_N = 0
    /\ bus_pins = <<>>
    /\ bus_call = <<>>
    /\ bus_pre = <<>>
    /\ bus_last = <<>>

\* what the two nested `for .. in a..=b` loops do first: the first cell, or
\* nothing at all when one of the inclusive ranges is empty
LoopEnter(c, i_start, i_end, j_start, j_end) ==
    [c EXCEPT !.pc = IF i_start <= i_end /\ j_start <= j_end THEN "loop" ELSE "idle",
              !.i = i_start, !.j = j_start,
              !.i_start = i_start, !.i_end = i_end,
              !.j_start = j_start, !.j_end = j_end]

\* mutant: the loops nested the other way round, columns outermost
LoopAdvanceColumnsOutermost(c) ==
    IF c.i < c.i_end THEN [c EXCEPT !.i = c.i + 1]
    ELSE IF c.j < c.j_end THEN [c EXCEPT !.j = c.j + 1, !.i = c.i_start]
    ELSE [c EXCEPT !.pc = "idle"]

\* the step of the nested loops after the body ran for (c.i, c.j): the inner
\* range over j advances first, then the outer one over i; an inclusive range
\* ends after its upper bound without computing the bound's successor
LoopAdvance(c) ==
    IF c.j < c.j_end THEN [c EXCEPT !.j = c.j + 1]
    ELSE IF c.i < c.i_end THEN [c EXCEPT !.i = c.i + 1, !.j = c.j_start]
    ELSE [c EXCEPT !.pc = "idle"]

\* Drawer::fill_screen(color) up to its first write_pixel call
FillScreen ==
    /\ draw_call.pc = "idle"
    /\ draw_call.n < MaxDraws
    /\ \E color \in ColorInputs :
          draw_call' = LoopEnter([draw_call EXCEPT !.op = "fill_screen",
                                      !.prev = draw_call.op, !.n = draw_call.n + 1,
                                      !.color = color, !.args = <<>>],
                                 draw_cfg.range[1][1], draw_cfg.range[1][2],
                                 draw_cfg.range[2][1], draw_cfg.range[2][2])
    /\ draw_log' = <<>>
    /\ UNCHANGED <<draw_cfg, active_idx, bufs, nswaps, scan, haddr_pins, vaddr_pins, data_pins, nwrites,
                   dirty, last_wr, scan_obs, prod, busVars, sipoVars, ownerVars>>

\* Drawer::draw_rectangle(i_start, j_start, width, height, color) up to its
\* first write_pixel call; the two additions and subtractions panic when the
\* build checks for overflow and wrap otherwise
DrawRectangle ==
    /\ draw_call.pc = "idle"
    /\ draw_call.n < MaxDraws
    /\ \E r \in RectInputs, color \in ColorInputs :
          LET c == [draw_call EXCEPT !.op = "draw_rectangle",
                        !.prev = draw_call.op, !.n = draw_call.n + 1,
                        !.color = color, !.args = r]
              i_end == RectEnd(r[1], r[3])
              j_end == RectEnd(r[2], r[4])
          IN  draw_call' = IF overflow_checks /\ (i_end.ovf \/ j_end.ovf)
                           THEN [c EXCEPT !.pc = "overflow"]
                           ELSE LoopEnter(c, r[1], i_end.val, r[2], j_end.val)
    /\ draw_log' = <<>>
    /\ UNCHANGED <<draw_cfg, active_idx, bufs, nswaps, scan, haddr_pins, vaddr_pins, data_pins, nwrites,
                   dirty, last_wr, scan_obs, prod, busVars, sipoVars, ownerVars>>

\* self.pixel_writer.write_pixel(i, j, color) in the body of the loops, and
\* the loops' step to the next cell
DrawWritePixel ==
    /\ draw_call.pc = "loop"
    /\ draw_log' = Append(draw_log, <<draw_call.i, draw_call.j, draw_call.color>>)
    /\ IF draw_cfg.kind = "bus_scan"
       THEN IF InDrawFrame(WriteCell(draw_call.i, draw_call.j)[1],
                           WriteCell(draw_call.i, draw_call.j)[2])
            THEN /\ bufs' = [bufs EXCEPT ![inactive_index][WriteCell(draw_call.i, draw_call.j)] =
                                            draw_call.color]
                 /\ draw_call' = LoopAdvance(draw_call)
            ELSE /\ draw_call' = [draw_call EXCEPT !.pc = "panicked"]
                 /\ UNCHANGED bufs
       ELSE /\ draw_call' = LoopAdvance(draw_call)
            /\ UNCHANGED bufs
    /\ UNCHANGED <<draw_cfg, active_idx, nswaps, scan, haddr_pins, vaddr_pins, data_pins, nwrites,
                   dirty, last_wr, scan_obs, prod, busVars, sipoVars, ownerVars>>

\* DoubleFb::swap() by the task that owns the Drawer, between two of its calls
DrawSwap ==
    /\ draw_call.pc = "idle"
    /\ draw_cfg.kind = "bus_scan"
    /\ nswaps < MaxSwaps
    /\ active_idx' = SwapNext(active_index)
    /\ nswaps' = nswaps + 1
    /\ draw_call' = [draw_call EXCEPT !.op = "swap", !.prev = draw_call.op]
    /\ UNCHANGED <<draw_cfg, draw_log, bufs, scan, haddr_pins, vaddr_pins, data_pins, nwrites,
                   dirty, last_wr, scan_obs, prod, busVars, sipoVars, ownerVars>>

NextDraw == FillScreen \/ DrawRectangle \/ DrawWritePixel \/ DrawSwap

\* the cells of addr_range() `range` in the order rows outermost, each with
\* `color`
RowMajor(range, color) ==
    LET w == range[2][2] - range[2][1] + 1
        h == range[1][2] - range[1][1] + 1
    IN  [k \in 1 .. w * h |->
            <<range[1][1] + ((k - 1) \div w), range[2][1] + ((k - 1) % w), color>>]

\* C32: fill_screen(color) calls write_pixel once for every cell of the
\* writer's addr_range() and for no other, rows outermost, columns in order
\* within a row, always with the given color: at every moment the calls made
\* so far are a proper beginning of that list, each call extends it, and the
\* method returns exactly when the list is complete, so it returns after as
\* many steps as the range has cells.  With the bus-scan writer, swap() right
\* after fill_screen(c) leaves every cell of the active buffer equal to c.
C32_FillScreenCoversRange ==
    /\ [](draw_call.op = "fill_screen" =>
             LET all == RowMajor(draw_cfg.range, draw_call.color)
             IN  /\ Len(draw_log) <= Len(all)
                 /\ draw_log = SubSeq(all, 1, Len(draw_log))
                 /\ (draw_call.pc = "idle" <=> Len(draw_log) = Len(all))
                 /\ (draw_call.pc = "loop" <=> Len(draw_log) < Len(all))
                 /\ (draw_call.pc = "loop" => ENABLED DrawWritePixel))
    /\ [][draw_call.op = "fill_screen" /\ draw_call.pc = "loop" =>
             Len(draw_log') = Len(draw_log) + 1]_vars
    /\ [](draw_call.op = "swap" /\ draw_call.prev = "fill_screen" =>
             \A cell \in DrawCells : bufs[active_index][cell] = draw_call.color)

C32_Witness ==
    /\ draw_cfg.kind = "bus_scan"
    /\ draw_call.op = "swap" /\ draw_call.prev = "fill_screen"
    /\ draw_call.color = 200 /\ active_idx = 1
    /\ Len(draw_log) = DrawRows * DrawCols
    /\ \A cell \in DrawCells : bufs[1][cell] = 200 /\ bufs[0][cell] = FB_INIT

\* C32, on a writer whose range ends at the largest u8: the loops stop
C32_WitnessU8Max ==
    /\ draw_cfg.range = <<<<254, 255>>, <<255, 255>>>>
    /\ draw_call.op = "fill_screen" /\ draw_call.pc = "idle"
    /\ draw_log = <<<<254, 255, 5>>, <<255, 255, 5>>>>

\* C33 as claimed: draw_rectangle(i_start, j_start, width, height, color)
\* writes no pixel at all when width or height is 0, wherever the rectangle
\* starts; for a rectangle with cells whose last row and column fit u8 the
\* computation of the two ends neither overflows nor underflows and the
\* calls are exactly the cells with i in [i_start, i_start + width - 1] and
\* j in [j_start, j_start + height - 1], once each.
C33_RectangleAsClaimed ==
    draw_call.op = "draw_rectangle" =>
        LET r == draw_call.args
            all == RowMajor(<<<<r[1], r[1] + r[3] - 1>>, <<r[2], r[2] + r[4] - 1>>>>,
                            draw_call.color)
            empty == r[3] = 0 \/ r[4] = 0
            fits == r[1] + r[3] - 1 <= 255 /\ r[2] + r[4] - 1 <= 255
        IN  /\ empty => draw_log = <<>>
            /\ ~empty /\ fits =>
                  /\ draw_call.pc # "overflow"
                  /\ Len(draw_log) <= Len(all)
                  /\ draw_log = SubSeq(all, 1, Len(draw_log))
                  /\ (draw_call.pc = "idle" => draw_log = all)

\* C33, the case that fails: width 0 at row 0 in a build without overflow
\* checks, where i_end wraps to 255 and rows 0, 1, 2, ... are written
C33_EmptyRectangleWrites ==
    /\ draw_call.op = "draw_rectangle" /\ draw_call.args = <<0, 0, 0, 1>>
    /\ ~overflow_checks /\ draw_call.i_end = 255
    /\ Len(draw_log) >= 2 /\ draw_log[1][1] = 0 /\ draw_log[2][1] = 1

(***************************************************************************)
(* Specifications.  Each one runs one subsystem and leaves the state of    *)
(* the others at rest.                                                     *)
(***************************************************************************)
DbOff ==
    /\ active_idx = 0
    /\ bufs = <<>>
    /\ prod = <<>>
    /\ scan = <<>>
    /\ haddr_pins = <<>>
    /\ vaddr_pins = <<>>
    /\ data_pins = <<>>
    /\ nswaps = 0
    /\ nwrites = 0
    /\ dirty = {}
    /\ last_wr = <<>>
    /\ scan_obs = <<>>

BusOff ==
    /\ bus_N = 0
    /\ bus_pins = <<>>
    /\ bus_call = <<>>
    /\ bus_pre = <<>>
    /\ bus_last = <<>>
    /\ overflow_checks = FALSE

SipoOff ==
    /\ sipo_cfg = <<>>
    /\ ser_out = <<>>
    /\ srclk = FALSE
    /\ rclk = FALSE
    /\ srclr = FALSE
    /\ shift_reg = <<>>
    /\ out_reg = <<>>
    /\ sipo_call = <<>>
    /\ ticked = <<>>

\* the writer's owner never calls present_frame (in bus_dac_demo the writer is
\* moved into the scan task)
OwnerOff == presenter = <<>>

\* no Drawer is constructed
DrawOff ==
    /\ draw_cfg = <<>>
    /\ draw_call = <<>>
    /\ draw_log = <<>>

Init == InitDb /\ BusOff /\ SipoOff /\ OwnerOff /\ DrawOff

InitBusOnly == InitBus /\ DbOff /\ SipoOff /\ OwnerOff /\ DrawOff

Next == NextDb

Spec == Init /\ [][Next]_vars

SpecBus == InitBusOnly /\ [][NextBus]_vars

InitSipoOnly == InitSipo /\ DbOff /\ BusOff /\ OwnerOff /\ DrawOff

SpecSipo == InitSipoOnly /\ [][NextSipo]_vars

SpecLive == Init /\ [][NextLive]_vars /\ WF_vars(ScanNext)

InitSwapOnly == InitSwap /\ BusOff /\ SipoOff /\ DrawOff

SpecSwap == InitSwapOnly /\ [][NextSwap]_vars

SpecAddr == Init /\ [][NextAddr]_vars

InitBankOnly == InitBank /\ DbOff /\ BusOff /\ OwnerOff /\ DrawOff

SpecBank == InitBankOnly /\ [][NextBank]_vars

InitDrawOnly == InitDraw /\ SipoOff /\ OwnerOff

SpecDraw == InitDrawOnly /\ [][NextDraw]_vars

====
